---- MODULE Spec2Model ----
(***************************************************************************)
(* kubectl-pods_on: the acquisition engine.                                *)
(*                                                                         *)
(*   - chooseStrategy                     (pod_query_strategy.go)          *)
(*   - queryPods, the paginated scan      (query file, lines 179-235)      *)
(*   - findPodsByQueryingNodesInParallel  (query file, lines 115-152)      *)
(*   - findPodsByQueryingAllPods          (query file, lines 96-112)       *)
(*   - parsePods                          (query file, lines 155-172)      *)
(*   - main, resolveNodeNames,            (main.go)                        *)
(*     filterDaemonSetPods, cmpPod                                         *)
(*                                                                         *)
(* Strings that the program orders (resource versions) are sequences of    *)
(* digits and are compared lexicographically, as Go compares strings.      *)
(* A Go slice is a record [isNil, elems]: the program tests a slice        *)
(* against nil, and a nil slice and an empty slice are different values.   *)
(*                                                                         *)
(* The worker group is github.com/fatih/semgroup (a dependency): Go blocks *)
(* in the calling goroutine until the weighted semaphore has a free slot,  *)
(* then runs the function in a new goroutine; an error a function returns  *)
(* is appended to the group's error list; nothing cancels the context;     *)
(* Wait blocks until every function has returned and returns the error     *)
(* list (nil when it is empty).                                            *)
(***************************************************************************)
EXTENDS Integers, Sequences, FiniteSets, TLC

\* ------------------------------------------------------------------ bounds
\* longest host list handed to scatter-gather
MaxHosts == 2
\* largest --workers value tried (0 is tried too: the flag is not validated)
MaxWorkers == 2
\* largest of the consecutive --workers values whose rate budget is computed
MaxRateWorkers == 20
\* most positional arguments
MaxArgs == 2
\* most rows of a table handed to post-processing on its own
MaxRows == 3
\* most rows the server puts on one page (stands for limit=1000)
PageLimit == 1
\* largest host count handed to chooseStrategy
MaxNodes == 12

\* ------------------------------------------------------- strings, slices
\* the empty Go string, for strings modelled as digit sequences
EmptyString == <<>>

\* strings.Compare(a, b): -1, 0 or +1, bytewise lexicographic
RECURSIVE Compare(_, _)
Compare(a, b) ==
    IF a = <<>> /\ b = <<>> THEN 0
    ELSE IF a = <<>> THEN -1
    ELSE IF b = <<>> THEN 1
    ELSE IF Head(a) < Head(b) THEN -1
    ELSE IF Head(a) > Head(b) THEN 1
    ELSE Compare(Tail(a), Tail(b))

\* Go's builtin max on two strings
MaxString(a, b) == IF Compare(b, a) > 0 THEN b ELSE a

\* a nil slice
NilSlice == [isNil |-> TRUE, elems |-> <<>>]

\* a non-nil slice holding the elements of s
SliceOf(s) == [isNil |-> FALSE, elems |-> s]

\* append(s, t...): s itself when t has no elements (a nil s stays nil)
AppendSlice(s, t) ==
    IF t.elems = <<>> THEN s ELSE [isNil |-> FALSE, elems |-> s.elems \o t.elems]

\* metav1.Table{}: the zero table
ZeroTable ==
    [Rows |-> NilSlice, ResourceVersion |-> EmptyString, Continue |-> EmptyString,
     ColumnDefinitions |-> <<>>]

\* ------------------------------------------------------------ the cluster
\* Object kinds a table row can carry on the wire, and after parsePods:
\*   rawPod     Object nil, Raw decodes to a Pod
\*   rawBad     Object nil, Raw does not decode
\*   rawOther   Object nil, Raw decodes to an object that is not a Pod
\*   typedPod   Object is a *corev1.Pod
\*   typedOther Object is set and is not a *corev1.Pod
Min(a, b) == IF a < b THEN a ELSE b

\* the rows of the cluster's pod list that a request selects: all of them
\* without a fieldSelector, those scheduled on the named host with one
ServerMatches(cl, req) ==
    IF req.fieldSelector = <<>> THEN cl
    ELSE SelectSeq(cl, LAMBDA p : p.nodeName = req.fieldSelector[1])

\* number of rows already served before the page a request asks for
ServerOffset(req) == IF req.continue = <<>> THEN 0 ELSE req.continue[1][1]

\* the column definitions the API server puts in a Table of pods
PodColumns == <<"Name", "Ready", "Status", "Restarts", "Age">>

\* one page as the API server can answer it: between 1 and PageLimit of the
\* remaining rows (none when nothing remains), a continue token iff rows
\* remain after the page, any resource version of revs; a page without rows
\* decodes to a nil or to an empty row slice ("rows": null or "rows": [])
ServerPage(m, off, n, rv, rows) ==
    [Rows |-> rows,
     ResourceVersion |-> rv,
     Continue |-> IF off + n < Len(m) THEN <<off + n>> ELSE EmptyString,
     ColumnDefinitions |-> PodColumns]

ServerPages(cl, revs, req) ==
    LET m   == ServerMatches(cl, req)
        off == ServerOffset(req)
        rem == Len(m) - off
    IN  IF rem <= 0
        THEN {ServerPage(m, off, 0, rv, rows) :
                 rv \in revs, rows \in {NilSlice, SliceOf(<<>>)}}
        ELSE UNION {{ServerPage(m, off, n, rv,
                                SliceOf([k \in 1..n |-> m[off + k]])) : rv \in revs} :
                       n \in 1..Min(PageLimit, rem)}

\* ------------------------------------------------------------ queryPods
\* the request of one loop iteration (lines 188-201)
NewRequest(opts, continueToken) ==
    [fieldSelector   |-> IF opts.fieldSelectorNodeName # ""
                         THEN <<opts.fieldSelectorNodeName>> ELSE <<>>,
     resourceVersion |-> IF opts.useWatchCache THEN <<"0">> ELSE <<>>,
     continue        |-> IF continueToken # EmptyString
                         THEN <<continueToken>> ELSE <<>>]

\* MergePage with the token of the last page written over the running one
MergePage_LastWrite(tableResp, resp, continueToken) ==
    IF continueToken = EmptyString
    THEN resp
    ELSE [tableResp EXCEPT
            !.Rows = AppendSlice(tableResp.Rows, resp.Rows),
            !.ResourceVersion = resp.ResourceVersion]

\* MergePage with every page written over the running table
MergePage_Overwrite(tableResp, resp, continueToken) == resp

\* the page merged into the running table (lines 212-217)
MergePage(tableResp, resp, continueToken) ==
    IF continueToken = EmptyString
    THEN resp
    ELSE [tableResp EXCEPT
            !.Rows = AppendSlice(tableResp.Rows, resp.Rows),
            !.ResourceVersion = MaxString(tableResp.ResourceVersion, resp.ResourceVersion)]

\* parsePods on one row: the row afterwards
ParseRow(row) ==
    IF row.object = "rawPod" THEN [row EXCEPT !.object = "typedPod"]
    ELSE IF row.object = "rawOther" THEN [row EXCEPT !.object = "typedOther"]
    ELSE row

\* parsePods: does row fail (typed and not a Pod, or raw and undecodable)
RowFails(row) == row.object \in {"typedOther", "rawBad"}

\* ParseError reporting the highest failing row
ParseError_Highest(t) ==
    LET bad == {i \in DOMAIN t.Rows.elems : RowFails(t.Rows.elems[i])}
    IN  IF bad = {} THEN 0
        ELSE CHOOSE i \in bad : \A j \in bad : i >= j

\* parsePods (lines 155-172): the lowest failing row index, 0 when none fails
ParseError(t) ==
    LET bad == {i \in DOMAIN t.Rows.elems : RowFails(t.Rows.elems[i])}
    IN  IF bad = {} THEN 0
        ELSE CHOOSE i \in bad : \A j \in bad : i <= j

\* parsePods' error for the lowest failing row (lines 160 and 166), with Go's
\* zero-based row index
ParseCause(t) ==
    LET i == ParseError(t)
    IN  [kind |-> IF t.Rows.elems[i].object = "rawBad" THEN "decode" ELSE "type", row |-> i - 1]

\* queryPods' error for a request that failed (lines 205-210)
ListCause == [kind |-> "list", row |-> -1]

\* parsePods: the table it leaves behind when no row fails
ParsePods(t) ==
    [t EXCEPT !.Rows.elems = [i \in DOMAIN t.Rows.elems |-> ParseRow(t.Rows.elems[i])]]

\* ------------------------------------------- findPodsByQueryingNodesInParallel
\* MergeInto with every response written over the accumulator
MergeInto_Overwrite(out, resp) == resp

\* the merge a worker performs under the lock (lines 135-145)
MergeInto(out, resp) ==
    IF out.Rows.isNil
    THEN resp
    ELSE [out EXCEPT
            !.Rows = AppendSlice(out.Rows, resp.Rows),
            !.ResourceVersion =
                IF Compare(resp.ResourceVersion, out.ResourceVersion) > 0
                THEN resp.ResourceVersion ELSE out.ResourceVersion]

\* SemAcquirable letting one caller too many through
SemAcquirable_OffByOne(cur, size) == size - cur >= 0

\* semaphore.Weighted.Acquire(ctx, 1) can take a slot (the context is
\* context.Background(), so a caller that cannot take one waits)
SemAcquirable(cur, size) == size - cur >= 1

\* MutexFree letting a caller in while the mutex is held
MutexFree_Always(holder) == TRUE

\* sync.Mutex.Lock returns only when no goroutine holds the mutex
MutexFree(holder) == holder = 0

\* the error a worker returns for its host (line 131)
WorkerError(node, cause) == <<"failed to list pods on node", node, cause>>

\* ------------------------------------------------------- chooseStrategy
queryPodPerNodeInParallel == "by-node"

queryAllPods == "all-pods"

\* magicRatio = 0.25 as the fraction MagicRatioNum / MagicRatioDen
MagicRatioNum == 1

MagicRatioDen == 4

\* RatioLess with <= in place of <
RatioLess_OrEqual(a, b, num, den) == a * den <= num * b

\* float64(a)/float64(b) < num/den for b > 0; both conversions and the
\* quotient's comparison with 0.25 are exact for counts below 2^53
RatioLess(a, b, num, den) == a * den < num * b

\* chooseStrategy without the test for an unknown total
chooseStrategy_RatioOnly(heuristicTotal, matched) ==
    IF RatioLess(matched, heuristicTotal, MagicRatioNum, MagicRatioDen)
    THEN queryPodPerNodeInParallel
    ELSE queryAllPods

\* chooseStrategy (pod_query_strategy.go, lines 26-68)
chooseStrategy(heuristicTotal, matched) ==
    IF heuristicTotal = 0 THEN queryPodPerNodeInParallel
    ELSE IF RatioLess(matched, heuristicTotal, MagicRatioNum, MagicRatioDen)
         THEN queryPodPerNodeInParallel
         ELSE queryAllPods

\* ------------------------------------------------------- post-processing
\* the bytes of the names that occur in the model ("Z" orders before "a",
\* "p10" before "p2")
Bytes(str) ==
    CASE str = ""    -> <<>>
      [] str = "Z"   -> <<90>>
      [] str = "a"   -> <<97>>
      [] str = "b"   -> <<98>>
      [] str = "h1"  -> <<104, 49>>
      [] str = "h2"  -> <<104, 50>>
      [] str = "h3"  -> <<104, 51>>
      [] str = "h4"  -> <<104, 52>>
      [] str = "h5"  -> <<104, 53>>
      [] str = "h6"  -> <<104, 54>>
      [] str = "h7"  -> <<104, 55>>
      [] str = "h8"  -> <<104, 56>>
      [] str = "h9"  -> <<104, 57>>
      [] str = "p0"  -> <<112, 48>>
      [] str = "p1"  -> <<112, 49>>
      [] str = "p10" -> <<112, 49, 48>>
      [] str = "p2"  -> <<112, 50>>
      [] str = "p3"  -> <<112, 51>>

\* strings.Compare on names
StrCompare(a, b) == Compare(Bytes(a), Bytes(b))

\* IsDaemonSetOwned looking at the first owner only
IsDaemonSetOwned_FirstOnly(owners) == owners # <<>> /\ owners[1] = "DaemonSet"

\* filterDaemonSetPods, lines 209-215: some owner reference has the kind
\* "DaemonSet"
IsDaemonSetOwned(owners) == \E k \in DOMAIN owners : owners[k] = "DaemonSet"

\* filterDaemonSetPods building its result from a new table
filterDaemonSetPods_FreshTable(in) ==
    LET kept == SelectSeq(in.Rows.elems, LAMBDA row : ~IsDaemonSetOwned(row.owners))
    IN  [ZeroTable EXCEPT !.Rows = IF kept = <<>> THEN NilSlice ELSE SliceOf(kept)]

\* filterDaemonSetPods dropping, with the DaemonSet pods, the last row kept
filterDaemonSetPods_DropLast(in) ==
    LET kept == SelectSeq(in.Rows.elems, LAMBDA row : ~IsDaemonSetOwned(row.owners))
        rest == SubSeq(kept, 1, Len(kept) - 1)
    IN  [in EXCEPT !.Rows = IF rest = <<>> THEN NilSlice ELSE SliceOf(rest)]

\* filterDaemonSetPods (main.go, lines 206-223): the rows kept, in order; the
\* slice is nil when no row is kept
filterDaemonSetPods(in) ==
    LET kept == SelectSeq(in.Rows.elems, LAMBDA row : ~IsDaemonSetOwned(row.owners))
    IN  [in EXCEPT !.Rows = IF kept = <<>> THEN NilSlice ELSE SliceOf(kept)]

\* cmpPod comparing the name before the host and the namespace
cmpPod_NameFirst(a, b) ==
    IF a.name # b.name THEN StrCompare(a.name, b.name)
    ELSE IF a.nodeName # b.nodeName THEN StrCompare(a.nodeName, b.nodeName)
    ELSE StrCompare(a.namespace, b.namespace)

\* cmpPod (main.go, lines 234-242): by host, then namespace, then name
cmpPod(a, b) ==
    IF a.nodeName # b.nodeName THEN StrCompare(a.nodeName, b.nodeName)
    ELSE IF a.namespace # b.namespace THEN StrCompare(a.namespace, b.namespace)
    ELSE StrCompare(a.name, b.name)

\* cmpPodRow (main.go, lines 226-230)
cmpPodRow(rowA, rowB) == cmpPod(rowA, rowB)

\* slices.SortFunc(rows, cmpPodRow) (main.go, line 154): the sort is not
\* stable, so every ordering of the rows that cmpPodRow accepts is an outcome
SortFunc(rows) ==
    {sorted \in {[k \in DOMAIN rows |-> rows[f[k]]] : f \in Permutations(DOMAIN rows)} :
        \A i, j \in DOMAIN sorted : i < j => cmpPodRow(sorted[i], sorted[j]) <= 0}

\* a type assertion to *corev1.Pod in filterDaemonSetPods or in cmpPodRow
\* meets a row that is not a typed Pod
PostPanics(table, includeDS) ==
    \E k \in DOMAIN table.Rows.elems :
        /\ table.Rows.elems[k].object # "typedPod"
        /\ (~includeDS \/ Len(table.Rows.elems) >= 2)

\* --------------------------------------------------------- target hosts
\* labels.Selector.Matches: a selector is a list of requirements
\* [key, op, value] that must all hold; "=" needs the label with that value,
\* "!=" holds also when the label is absent
RequirementMatches(req, labels) ==
    IF req.op = "="
    THEN req.key \in DOMAIN labels /\ labels[req.key] = req.value
    ELSE req.key \notin DOMAIN labels \/ labels[req.key] # req.value

SelectorMatches(selector, labels) ==
    \A k \in DOMAIN selector : RequirementMatches(selector[k], labels)

\* resolveNodeNames keeping the hosts that match every selector
resolveNodeNames_AllSelectors(items, sels) ==
    [nodes |-> {items[i].name : i \in {j \in DOMAIN items :
                    \A k \in DOMAIN sels : SelectorMatches(sels[k], items[j].labels)}},
     total |-> Len(items)]

\* resolveNodeNames (main.go, lines 181-203) on the items the node listing
\* returned: the names of the hosts that match some selector, and the
\* number of items
resolveNodeNames(items, sels) ==
    [nodes |-> {items[i].name : i \in {j \in DOMAIN items :
                    \E k \in DOMAIN sels : SelectorMatches(sels[k], items[j].labels)}},
     total |-> Len(items)]

\* TargetSet with the resolved names in place of the explicit ones
TargetSet_Resolved(names, resolved) == resolved

\* main, lines 108 and 115: sets.New(nodeNames...).Union(out)
TargetSet(names, resolved) == {names[i] : i \in DOMAIN names} \cup resolved

\* UnsortedList handing out a name once more
UnsortedList_Repeated(set) ==
    {<<n>> \o s : n \in set,
                  s \in {t \in [1..Cardinality(set) -> set] :
                            \A i, j \in DOMAIN t : i # j => t[i] # t[j]}}

\* sets.Set.UnsortedList (main.go, line 139): the elements once each, in any
\* order
UnsortedList(set) ==
    {s \in [1..Cardinality(set) -> set] : \A i, j \in DOMAIN s : i # j => s[i] # s[j]}

\* FilterByNodes keeping every row
FilterByNodes_All(resp, nodes) == resp

\* findPodsByQueryingAllPods, lines 102-108: the rows of resp whose pod runs
\* on a target host; the slice is nil when there is none
FilterByNodes(resp, nodes) ==
    LET kept == SelectSeq(resp.Rows.elems, LAMBDA row : row.nodeName \in nodes)
    IN  [resp EXCEPT !.Rows = IF kept = <<>> THEN NilSlice ELSE SliceOf(kept)]

\* the error findPodsByQueryingAllPods returns (line 99)
AllPodsError(cause) == <<"failed to list pods", cause>>

\* SwitchCase taking every unknown strategy as by-node
SwitchCase_Fallthrough(strategy) ==
    IF strategy = queryAllPods THEN queryAllPods ELSE queryPodPerNodeInParallel

\* main, lines 133-142: the case the switch on queryStrategy takes
SwitchCase(strategy) ==
    IF strategy \in {queryAllPods, queryPodPerNodeInParallel} THEN strategy ELSE "default"

\* DecideStrategy asking chooseStrategy whatever the flag says
DecideStrategy_Heuristic(flag, total, matched) == chooseStrategy(total, matched)

\* main, lines 120-125: the strategy of --strategy, chooseStrategy's when
\* the flag is empty
DecideStrategy(flag, total, matched) ==
    IF flag = "" THEN chooseStrategy(total, matched) ELSE flag

\* QueryFatal that lets every result through
QueryFatal_Never(err) == FALSE

\* main, line 143: err != nil
QueryFatal(err) == err # <<>>

\* ---------------------------------------------------------- parsePosArgs
\* the characters of the arguments that occur in the model
ArgChars(arg) ==
    CASE arg = ""                   -> <<>>
      [] arg = "h1"                 -> <<"h", "1">>
      [] arg = "h2"                 -> <<"h", "2">>
      [] arg = "tier=web"           -> <<"t", "i", "e", "r", "=", "w", "e", "b">>
      [] arg = "zone in (east)"     -> <<"z", "o", "n", "e", " ", "i", "n", " ", "(", "e", "a", "s", "t", ")">>
      [] arg = "tier=db,zone!=west" -> <<"t", "i", "e", "r", "=", "d", "b", ",",
                                         "z", "o", "n", "e", "!", "=", "w", "e", "s", "t">>
      [] arg = "x in "              -> <<"x", " ", "i", "n", " ">>
      [] arg = "h 1"                -> <<"h", " ", "1">>

\* ContainsAny looking for the first of the characters only
ContainsAny_FirstOnly(arg, chars) ==
    \E k \in DOMAIN ArgChars(arg) : ArgChars(arg)[k] = chars[1]

\* strings.ContainsAny(arg, chars)
ContainsAny(arg, chars) ==
    \E k \in DOMAIN ArgChars(arg) : \E c \in DOMAIN chars : ArgChars(arg)[k] = chars[c]

\* labels.Parse on the arguments of the model that reach it: the selector,
\* or an error for "x in " (no value set) and "h 1" (no operator)
LabelsParse(arg) ==
    CASE arg = "tier=web" ->
             [ok |-> TRUE, selector |-> <<[key |-> "tier", op |-> "=", value |-> "web"]>>]
      [] arg = "zone in (east)" ->
             [ok |-> TRUE, selector |-> <<[key |-> "zone", op |-> "=", value |-> "east"]>>]
      [] arg = "tier=db,zone!=west" ->
             [ok |-> TRUE, selector |-> <<[key |-> "tier", op |-> "=", value |-> "db"],
                                          [key |-> "zone", op |-> "!=", value |-> "west"]>>]
      [] OTHER -> [ok |-> FALSE, selector |-> <<>>]

\* the loop of parsePosArgs (lines 55-66) over the arguments left, with the
\* selectors and host names collected so far
RECURSIVE ParseLoop(_, _, _)
ParseLoop(args, sels, names) ==
    IF args = <<>> THEN [selectors |-> sels, nodeNames |-> names, err |-> FALSE]
    ELSE IF ~ContainsAny(Head(args), <<"=", " ">>)
         THEN ParseLoop(Tail(args), sels, Append(names, Head(args)))
         ELSE IF ~LabelsParse(Head(args)).ok
              THEN [selectors |-> <<>>, nodeNames |-> <<>>, err |-> TRUE]
              ELSE ParseLoop(Tail(args), Append(sels, LabelsParse(Head(args)).selector), names)

\* parsePosArgs returning what it had classified before the error
parsePosArgs_KeepPartial(args) ==
    LET bad   == {k \in DOMAIN args : ContainsAny(args[k], <<"=", " ">>) /\ ~LabelsParse(args[k]).ok}
        first == IF bad = {} THEN Len(args) + 1 ELSE CHOOSE k \in bad : \A j \in bad : k <= j
        r     == ParseLoop(SubSeq(args, 1, first - 1), <<>>, <<>>)
    IN  IF args = <<>> THEN [selectors |-> <<>>, nodeNames |-> <<>>, err |-> TRUE]
        ELSE [r EXCEPT !.err = bad # {}]

\* parsePosArgs (cli.go, lines 51-68)
parsePosArgs(args) ==
    IF args = <<>> THEN [selectors |-> <<>>, nodeNames |-> <<>>, err |-> TRUE]
    ELSE ParseLoop(args, <<>>, <<>>)

\* ------------------------------------------------------------ transport
\* the power of two by which a float32 that holds m >= 0 is scaled: the
\* significand has 24 bits
RECURSIVE Ulp(_, _)
Ulp(m, u) == IF m < 16777216 * u THEN u ELSE Ulp(m, 2 * u)

\* float32(n) for an integer n: the nearest value with a 24-bit
\* significand, ties to the even significand
Float32(n) ==
    LET m == IF n < 0 THEN -n ELSE n
        u == Ulp(m, 1)
        q == m \div u
        r == m % u
        rounded == IF 2 * r > u \/ (2 * r = u /\ q % 2 = 1) THEN (q + 1) * u ELSE q * u
    IN  IF n < 0 THEN -rounded ELSE rounded

\* ConfiguredCfg with the burst taken as three times the worker count
ConfiguredCfg_BurstOfWorkers(workers) ==
    [QPS |-> Float32(Float32(workers) * 3), Burst |-> workers * 3]

\* main, lines 99-100: restCfg.QPS = float32(workers) * 3 and
\* restCfg.Burst = int(restCfg.QPS) * 3
ConfiguredCfg(workers) ==
    LET qps == Float32(Float32(workers) * 3)
    IN  [QPS |-> qps, Burst |-> qps * 3]

\* the rate fields of a rest.Config as ToRESTConfig returns it: not set
FreshCfg == [QPS |-> 0, Burst |-> 0]

\* ------------------------------------------------------------------ state
VARIABLES
    nodeNames,      \* []string handed to findPodsByQueryingNodesInParallel
    numWorkers,     \* --workers
    useWatchCache,  \* the read-cache hint toggle
    cluster,        \* the API server's pod list, unchanged during the run
    revisions,      \* resource versions the API server may report
    cpc,            \* coordinator: "loop" (in the for loop or in Wait), "returned"
    next,           \* index of the next host the for loop hands to g.Go
    semCur,         \* slots of the semaphore that are taken
    wgCount,        \* the WaitGroup counter
    errs,           \* g.errs
    out,            \* the shared accumulator
    mu,             \* 0 when the mutex is free, else the worker holding it
    task,           \* per host index: the worker goroutine and its queryPods frame
    requests,       \* per host index: the requests sent, in order
    responses,      \* per host index: the pages received, in order
    ret,            \* what findPodsByQueryingNodesInParallel returned
    heuristicTotalNodes,  \* chooseStrategy's first argument
    matchedNodes,         \* chooseStrategy's second argument (a count)
    queryStrategy,        \* the strategy chosen, "" before the choice
    mpc,                  \* main: the statement it is at
    posArgs,              \* the positional arguments
    transport,            \* the rate fields of main's restCfg and of the pods client's
    firstRun,             \* what an earlier invocation with the same input printed
    argNodeNames,         \* the host names parsePosArgs returned
    selectors,            \* the label selectors parsePosArgs returned
    strategyFlag,         \* --strategy
    includeDaemonSets,    \* --include-daemonsets
    nodeList,             \* the API server's node list
    resolved,             \* what resolveNodeNames returned to main
    matchedSet,           \* main's matchedNodes, the set of target hosts
    nodeListings,         \* node list requests sent to the API server
    gscan,                \* findPodsByQueryingAllPods: its queryPods frame
    presented,            \* the rows handed to the printer
    printed,              \* the table handed to print (line 157)
    fatal                 \* the message of klog.Fatalf, "" when not called

inputVars == <<nodeNames, numWorkers, useWatchCache, cluster, revisions>>

groupVars == <<cpc, next, semCur, wgCount, errs, out, mu, task, requests, responses, ret>>

strategyVars == <<heuristicTotalNodes, matchedNodes, queryStrategy>>

mainInputs == <<posArgs, argNodeNames, selectors, strategyFlag, includeDaemonSets, nodeList,
                transport, firstRun>>

mainVars == <<mpc, mainInputs, resolved, matchedSet, nodeListings, gscan, presented, printed, fatal>>

vars == <<inputVars, groupVars, strategyVars, mainVars>>

\* host names: the empty name (an argument "" is taken as a host name),
\* a host with pods, a host without
HostNames == {"", "h1", "h2"}

\* the duplicate-free lists of at most n host names (main passes the
\* UnsortedList of a set, in any order)
HostLists(n) ==
    UNION {{s \in [1..k -> HostNames] : \A i, j \in 1..k : i # j => s[i] # s[j]} : k \in 0..n}

\* a table row: the pod's metadata.namespace, metadata.name, spec.nodeName,
\* the kinds of its metadata.ownerReferences, and the state of the row's
\* payload (raw bytes or a typed object)
PodOwned(ns, name, node, owners) ==
    [namespace |-> ns, name |-> name, nodeName |-> node, owners |-> owners, object |-> "rawPod"]

Pod(ns, name, node) == PodOwned(ns, name, node, <<>>)

\* two pods on h1, none on h2
SmallCluster == <<Pod("a", "p1", "h1"), Pod("b", "p2", "h1")>>

\* three pods, one of them on a host outside HostNames
ScanCluster == <<Pod("a", "p1", "h1"), Pod("a", "p2", "h3"), Pod("b", "p1", "h1")>>

\* "10" orders before "5"
SmallRevisions == {<<1, 0>>, <<5>>}

ScanRevisions == {<<5>>, <<6>>, <<7>>}

\* the goroutine of host index i before g.Go starts it
IdleTask ==
    [pc |-> "idle", continueToken |-> EmptyString, tableResp |-> ZeroTable,
     page |-> 0, resp |-> ZeroTable, err |-> <<>>]

\* queryPods' frame of findPodsByQueryingAllPods before the call, with the
\* requests it sent and the pages it received
IdleScan ==
    [pc |-> "idle", continueToken |-> EmptyString, tableResp |-> ZeroTable,
     page |-> 0, err |-> <<>>, requests |-> <<>>, responses |-> <<>>]

\* no earlier invocation
NoRun == [done |-> FALSE, strategy |-> "", presented |-> <<>>]

\* main before resolveNodeNames is called (it is not called without selectors)
NotResolved == [called |-> FALSE, isNil |-> TRUE, nodes |-> {}, total |-> 0, err |-> FALSE]

\* main's state when one of the two query functions is looked at on its
\* own: main is at its call, nothing was listed, nothing is printed
MainAtCall ==
    /\ mpc = "query"
    /\ argNodeNames = nodeNames
    /\ selectors = <<>>
    /\ strategyFlag = queryStrategy
    /\ includeDaemonSets = TRUE
    /\ posArgs = nodeNames
    /\ transport = [restCfg |-> ConfiguredCfg(numWorkers), podsCfg |-> FreshCfg]
    /\ firstRun = NoRun
    /\ nodeList = <<>>
    /\ resolved = NotResolved
    /\ matchedSet = {nodeNames[i] : i \in DOMAIN nodeNames}
    /\ nodeListings = 0
    /\ gscan = IdleScan
    /\ presented = <<>>
    /\ printed = ZeroTable
    /\ fatal = ""

\* the state at the entry of findPodsByQueryingNodesInParallel (lines 117-122)
GroupInit ==
    /\ cpc = "loop"
    /\ next = 1
    /\ semCur = 0
    /\ wgCount = 0
    /\ errs = <<>>
    /\ out = ZeroTable
    /\ mu = 0
    /\ task = [i \in DOMAIN nodeNames |-> IdleTask]
    /\ requests = [i \in DOMAIN nodeNames |-> <<>>]
    /\ responses = [i \in DOMAIN nodeNames |-> <<>>]
    /\ ret = [returned |-> FALSE, table |-> ZeroTable, err |-> <<>>]

Init ==
    /\ nodeNames \in HostLists(MaxHosts)
    /\ numWorkers \in 0..MaxWorkers
    /\ useWatchCache \in BOOLEAN
    /\ cluster = SmallCluster
    /\ revisions = SmallRevisions
    /\ GroupInit
    /\ heuristicTotalNodes = 0
    /\ matchedNodes = Len(nodeNames)
    /\ queryStrategy = queryPodPerNodeInParallel
    /\ MainAtCall

\* ---------------------------------------------------------------- actions
\* g.Go for host index i (lines 123-125): wg.Add, the semaphore slot, the
\* new goroutine; the for loop waits here while no slot is free
Go(i) ==
    /\ cpc = "loop"
    /\ i = next
    /\ i <= Len(nodeNames)
    /\ SemAcquirable(semCur, numWorkers)
    /\ wgCount' = wgCount + 1
    /\ semCur' = semCur + 1
    /\ next' = next + 1
    /\ task' = [task EXCEPT ![i].pc = "send"]
    /\ UNCHANGED <<cpc, errs, out, mu, requests, responses, ret>>
    /\ UNCHANGED <<inputVars, strategyVars, mainVars>>

\* queryPods, lines 185-203: worker i builds and sends the request of a page
SendRequest(i) ==
    /\ task[i].pc = "send"
    /\ LET opts == [fieldSelectorNodeName |-> nodeNames[i], useWatchCache |-> useWatchCache]
       IN  requests' = [requests EXCEPT ![i] = Append(@, NewRequest(opts, task[i].continueToken))]
    /\ task' = [task EXCEPT ![i].pc = "recv"]
    /\ UNCHANGED <<cpc, next, semCur, wgCount, errs, out, mu, responses, ret>>
    /\ UNCHANGED <<inputVars, strategyVars, mainVars>>

\* queryPods, lines 204-209: the request of worker i fails; queryPods returns
\* the zero table and the error, and the worker returns the error (line 131)
RecvError(i) ==
    /\ task[i].pc = "recv"
    /\ task' = [task EXCEPT ![i].pc = "exit",
                            ![i].resp = ZeroTable,
                            ![i].err = WorkerError(nodeNames[i], ListCause)]
    /\ UNCHANGED <<cpc, next, semCur, wgCount, errs, out, mu, requests, responses, ret>>
    /\ UNCHANGED <<inputVars, strategyVars, mainVars>>

\* queryPods, lines 207-234: worker i receives a page and merges it; with a
\* continue token it loops, without one it ends the loop, parses the rows
\* and returns
RecvPage(i) ==
    /\ task[i].pc = "recv"
    /\ \E resp \in ServerPages(cluster, revisions, requests[i][Len(requests[i])]) :
         LET tableResp == MergePage(task[i].tableResp, resp, task[i].continueToken)
         IN  /\ responses' = [responses EXCEPT ![i] = Append(@, resp)]
             /\ IF resp.Continue = EmptyString
                THEN IF ParseError(tableResp) # 0
                     THEN task' = [task EXCEPT ![i].pc = "exit",
                                               ![i].tableResp = tableResp,
                                               ![i].resp = ZeroTable,
                                               ![i].err = WorkerError(nodeNames[i], ParseCause(tableResp))]
                     ELSE task' = [task EXCEPT ![i].pc = "lock",
                                               ![i].tableResp = ParsePods(tableResp),
                                               ![i].resp = ParsePods(tableResp)]
                ELSE task' = [task EXCEPT ![i].pc = "send",
                                          ![i].tableResp = tableResp,
                                          ![i].continueToken = resp.Continue,
                                          ![i].page = @ + 1]
    /\ UNCHANGED <<cpc, next, semCur, wgCount, errs, out, mu, requests, ret>>
    /\ UNCHANGED <<inputVars, strategyVars, mainVars>>

\* mu.Lock() (line 134)
Lock(i) ==
    /\ task[i].pc = "lock"
    /\ MutexFree(mu)
    /\ mu' = i
    /\ task' = [task EXCEPT ![i].pc = "merge"]
    /\ UNCHANGED <<cpc, next, semCur, wgCount, errs, out, requests, responses, ret>>
    /\ UNCHANGED <<inputVars, strategyVars, mainVars>>

\* lines 135-147: the merge under the lock, mu.Unlock(), return nil
MergeUnlock(i) ==
    /\ task[i].pc = "merge"
    /\ mu = i
    /\ out' = MergeInto(out, task[i].resp)
    /\ mu' = 0
    /\ task' = [task EXCEPT ![i].pc = "exit"]
    /\ UNCHANGED <<cpc, next, semCur, wgCount, errs, requests, responses, ret>>
    /\ UNCHANGED <<inputVars, strategyVars, mainVars>>

\* the goroutine of g.Go after the function returned: a returned error is
\* appended to g.errs, the semaphore slot is released, wg.Done
Exit(i) ==
    /\ task[i].pc = "exit"
    /\ errs' = IF task[i].err # <<>> THEN Append(errs, task[i].err) ELSE errs
    /\ semCur' = semCur - 1
    /\ wgCount' = wgCount - 1
    /\ task' = [task EXCEPT ![i].pc = "done"]
    /\ UNCHANGED <<cpc, next, out, mu, requests, responses, ret>>
    /\ UNCHANGED <<inputVars, strategyVars, mainVars>>

\* g.Wait() and the return (lines 150-151): after the loop, once every
\* goroutine is done; the error is g.errs, nil when it is empty
Wait ==
    /\ cpc = "loop"
    /\ next > Len(nodeNames)
    /\ wgCount = 0
    /\ ret' = [returned |-> TRUE, table |-> out, err |-> errs]
    /\ cpc' = "returned"
    /\ UNCHANGED <<next, semCur, wgCount, errs, out, mu, task, requests, responses>>
    /\ UNCHANGED <<inputVars, strategyVars, mainVars>>

Next ==
    \/ \E i \in DOMAIN nodeNames : Go(i)
    \/ \E i \in DOMAIN nodeNames : SendRequest(i)
    \/ \E i \in DOMAIN nodeNames : RecvError(i)
    \/ \E i \in DOMAIN nodeNames : RecvPage(i)
    \/ \E i \in DOMAIN nodeNames : Lock(i)
    \/ \E i \in DOMAIN nodeNames : MergeUnlock(i)
    \/ \E i \in DOMAIN nodeNames : Exit(i)
    \/ Wait

Spec == Init /\ [][Next]_vars

\* ------------------------------------------------ one scan, in more detail
\* A single host (or, for the empty name, the whole cluster) scanned by one
\* worker, over a cluster that needs up to three pages and a server that
\* reports three different resource versions.
InitScan ==
    /\ nodeNames \in {<<n>> : n \in HostNames}
    /\ numWorkers = 1
    /\ useWatchCache \in BOOLEAN
    /\ cluster = ScanCluster
    /\ revisions = ScanRevisions
    /\ GroupInit
    /\ heuristicTotalNodes = 0
    /\ matchedNodes = Len(nodeNames)
    /\ queryStrategy = queryPodPerNodeInParallel
    /\ MainAtCall

SpecScan == InitScan /\ [][Next]_vars

\* ------------------------------------------------- the strategy decision
InitStrategy ==
    /\ nodeNames = <<>>
    /\ numWorkers = 1
    /\ useWatchCache = FALSE
    /\ cluster = <<>>
    /\ revisions = {}
    /\ GroupInit
    /\ heuristicTotalNodes \in 0..MaxNodes
    /\ matchedNodes \in 0..MaxNodes
    /\ queryStrategy = ""
    /\ MainAtCall

\* main, lines 120-125, with an empty --strategy
ChooseStrategy ==
    /\ queryStrategy = ""
    /\ queryStrategy' = chooseStrategy(heuristicTotalNodes, matchedNodes)
    /\ UNCHANGED <<heuristicTotalNodes, matchedNodes>>
    /\ UNCHANGED <<inputVars, groupVars, mainVars>>

NextStrategy == ChooseStrategy

SpecStrategy == InitStrategy /\ [][NextStrategy]_vars

\* ------------------------------------------- main: arguments, transport
\* main, lines 86-93: parsePosArgs; its error ends the program
ParseArgs ==
    /\ mpc = "args"
    /\ LET r == parsePosArgs(posArgs)
       IN  /\ selectors' = r.selectors
           /\ argNodeNames' = r.nodeNames
           /\ IF r.err
              THEN mpc' = "fatal" /\ fatal' = "failed to parse arguments"
              ELSE mpc' = "config" /\ fatal' = fatal
    /\ UNCHANGED <<posArgs, strategyFlag, includeDaemonSets, nodeList, transport, firstRun>>
    /\ UNCHANGED <<resolved, matchedSet, nodeListings, gscan, presented, printed>>
    /\ UNCHANGED <<inputVars, groupVars, strategyVars>>

\* main, lines 95-105: the REST config with the rate fields set from
\* --workers, and the clientset made of it
Configure ==
    /\ mpc = "config"
    /\ transport' = [transport EXCEPT !.restCfg = ConfiguredCfg(numWorkers)]
    /\ mpc' = "resolve"
    /\ UNCHANGED <<posArgs, argNodeNames, selectors, strategyFlag, includeDaemonSets, nodeList,
                   firstRun>>
    /\ UNCHANGED <<resolved, matchedSet, nodeListings, gscan, presented, printed, fatal>>
    /\ UNCHANGED <<inputVars, groupVars, strategyVars>>

\* main, lines 95-98: ToRESTConfig fails
ConfigError ==
    /\ mpc = "config"
    /\ mpc' = "fatal"
    /\ fatal' = "failed to get REST config"
    /\ UNCHANGED <<mainInputs, resolved, matchedSet, nodeListings, gscan, presented, printed>>
    /\ UNCHANGED <<inputVars, groupVars, strategyVars>>

\* main, lines 128-131, and makePodsRESTClient, lines 168-179: the client
\* for the pod queries is made of a REST config that the factory returns
\* anew; the function sets APIPath, GroupVersion, NegotiatedSerializer and
\* UserAgent on it
MakePodsClient ==
    /\ mpc = "client"
    /\ transport' = [transport EXCEPT !.podsCfg = FreshCfg]
    /\ mpc' = "dispatch"
    /\ UNCHANGED <<posArgs, argNodeNames, selectors, strategyFlag, includeDaemonSets, nodeList,
                   firstRun>>
    /\ UNCHANGED <<resolved, matchedSet, nodeListings, gscan, presented, printed, fatal>>
    /\ UNCHANGED <<inputVars, groupVars, strategyVars>>

\* main, lines 128-131: makePodsRESTClient fails
MakePodsClientError ==
    /\ mpc = "client"
    /\ mpc' = "fatal"
    /\ fatal' = "failed to create REST client"
    /\ UNCHANGED <<mainInputs, resolved, matchedSet, nodeListings, gscan, presented, printed>>
    /\ UNCHANGED <<inputVars, groupVars, strategyVars>>

\* ------------------------------------------------ main: up to the query
\* main, lines 107-118: the target set; with selectors, resolveNodeNames
\* lists the nodes once and its matches are united with the explicit names
Resolve ==
    /\ mpc = "resolve"
    /\ IF selectors = <<>>
       THEN /\ resolved' = resolved
            /\ nodeListings' = nodeListings
            /\ matchedSet' = TargetSet(argNodeNames, {})
            /\ heuristicTotalNodes' = heuristicTotalNodes
       ELSE LET r == resolveNodeNames(nodeList, selectors)
            IN  /\ resolved' = [called |-> TRUE, isNil |-> FALSE, nodes |-> r.nodes,
                                total |-> r.total, err |-> FALSE]
                /\ nodeListings' = nodeListings + 1
                /\ matchedSet' = TargetSet(argNodeNames, r.nodes)
                /\ heuristicTotalNodes' = r.total
    /\ matchedNodes' = Cardinality(matchedSet')
    /\ mpc' = "strategy"
    /\ UNCHANGED <<queryStrategy, mainInputs, gscan, presented, printed, fatal>>
    /\ UNCHANGED <<inputVars, groupVars>>

\* main, lines 110-113, and resolveNodeNames, lines 183-186: the node
\* listing fails; resolveNodeNames returns (nil, 0, err) and main ends
ResolveError ==
    /\ mpc = "resolve"
    /\ selectors # <<>>
    /\ resolved' = [called |-> TRUE, isNil |-> TRUE, nodes |-> {}, total |-> 0, err |-> TRUE]
    /\ nodeListings' = nodeListings + 1
    /\ mpc' = "fatal"
    /\ fatal' = "failed to resolve node names"
    /\ UNCHANGED <<mainInputs, matchedSet, gscan, presented, printed>>
    /\ UNCHANGED <<inputVars, groupVars, strategyVars>>

\* main, lines 120-126: the flag's strategy, or chooseStrategy's when the
\* flag is empty
Strategy ==
    /\ mpc = "strategy"
    /\ queryStrategy' = DecideStrategy(strategyFlag, heuristicTotalNodes, Cardinality(matchedSet))
    /\ mpc' = "client"
    /\ UNCHANGED <<heuristicTotalNodes, matchedNodes>>
    /\ UNCHANGED <<mainInputs, resolved, matchedSet, nodeListings, gscan, presented, printed, fatal>>
    /\ UNCHANGED <<inputVars, groupVars>>

\* main, lines 134-136: the call of findPodsByQueryingAllPods
DispatchAllPods ==
    /\ mpc = "dispatch"
    /\ SwitchCase(queryStrategy) = queryAllPods
    /\ gscan' = [IdleScan EXCEPT !.pc = "send"]
    /\ mpc' = "query"
    /\ UNCHANGED <<mainInputs, resolved, matchedSet, nodeListings, presented, printed, fatal>>
    /\ UNCHANGED <<inputVars, groupVars, strategyVars>>

\* main, lines 137-139: the call of findPodsByQueryingNodesInParallel with
\* the target set as a list
DispatchByNode ==
    /\ mpc = "dispatch"
    /\ SwitchCase(queryStrategy) = queryPodPerNodeInParallel
    /\ \E list \in UnsortedList(matchedSet) :
          /\ nodeNames' = list
          /\ task' = [i \in DOMAIN list |-> IdleTask]
          /\ requests' = [i \in DOMAIN list |-> <<>>]
          /\ responses' = [i \in DOMAIN list |-> <<>>]
    /\ cpc' = "loop"
    /\ next' = 1
    /\ semCur' = 0
    /\ wgCount' = 0
    /\ errs' = <<>>
    /\ out' = ZeroTable
    /\ mu' = 0
    /\ mpc' = "query"
    /\ UNCHANGED <<numWorkers, useWatchCache, cluster, revisions, ret>>
    /\ UNCHANGED <<mainInputs, resolved, matchedSet, nodeListings, gscan, presented, printed, fatal>>
    /\ UNCHANGED strategyVars

\* main, lines 140-142: the switch's default
DispatchUnknown ==
    /\ mpc = "dispatch"
    /\ SwitchCase(queryStrategy) = "default"
    /\ mpc' = "fatal"
    /\ fatal' = "unknown pod query strategy"
    /\ UNCHANGED <<mainInputs, resolved, matchedSet, nodeListings, gscan, presented, printed>>
    /\ UNCHANGED <<inputVars, groupVars, strategyVars>>

\* ------------------------------------------- findPodsByQueryingAllPods
\* queryPods, lines 185-203, called without a field selector (line 97)
GlobalSend ==
    /\ mpc = "query"
    /\ gscan.pc = "send"
    /\ LET opts == [fieldSelectorNodeName |-> "", useWatchCache |-> useWatchCache]
       IN  gscan' = [gscan EXCEPT !.requests = Append(@, NewRequest(opts, gscan.continueToken)),
                                  !.pc = "recv"]
    /\ UNCHANGED <<mpc, mainInputs, resolved, matchedSet, nodeListings, presented, printed, fatal>>
    /\ UNCHANGED <<inputVars, groupVars, strategyVars>>

\* queryPods, lines 204-209, and line 99: the request fails, the function
\* returns the zero table and the error
GlobalRecvError ==
    /\ mpc = "query"
    /\ gscan.pc = "recv"
    /\ gscan' = [gscan EXCEPT !.pc = "done", !.err = ListCause]
    /\ ret' = [returned |-> TRUE, table |-> ZeroTable, err |-> <<AllPodsError(ListCause)>>]
    /\ UNCHANGED <<mpc, mainInputs, resolved, matchedSet, nodeListings, presented, printed, fatal>>
    /\ UNCHANGED <<cpc, next, semCur, wgCount, errs, out, mu, task, requests, responses>>
    /\ UNCHANGED <<inputVars, strategyVars>>

\* queryPods, lines 207-234, and lines 98-111: a page arrives and is merged;
\* after the last page the rows are parsed, the rows of the target hosts
\* are kept and the table is returned; the type assertion of line 103
\* panics on a row that is not a Pod
GlobalRecvPage ==
    /\ mpc = "query"
    /\ gscan.pc = "recv"
    /\ \E resp \in ServerPages(cluster, revisions, gscan.requests[Len(gscan.requests)]) :
         LET tableResp == MergePage(gscan.tableResp, resp, gscan.continueToken)
             received  == [gscan EXCEPT !.responses = Append(@, resp), !.tableResp = tableResp]
         IN  IF resp.Continue # EmptyString
             THEN /\ gscan' = [received EXCEPT !.pc = "send", !.continueToken = resp.Continue,
                                               !.page = @ + 1]
                  /\ UNCHANGED <<ret, mpc>>
             ELSE IF ParseError(tableResp) # 0
             THEN /\ gscan' = [received EXCEPT !.pc = "done", !.err = ParseCause(tableResp)]
                  /\ ret' = [returned |-> TRUE, table |-> ZeroTable,
                             err |-> <<AllPodsError(ParseCause(tableResp))>>]
                  /\ UNCHANGED mpc
             ELSE LET parsed == ParsePods(tableResp)
                  IN  /\ gscan' = [received EXCEPT !.pc = "done", !.tableResp = parsed]
                      /\ IF \E k \in DOMAIN parsed.Rows.elems : parsed.Rows.elems[k].object # "typedPod"
                         THEN mpc' = "panic" /\ UNCHANGED ret
                         ELSE /\ ret' = [returned |-> TRUE, table |-> FilterByNodes(parsed, matchedSet),
                                         err |-> <<>>]
                              /\ UNCHANGED mpc
    /\ UNCHANGED <<mainInputs, resolved, matchedSet, nodeListings, presented, printed, fatal>>
    /\ UNCHANGED <<cpc, next, semCur, wgCount, errs, out, mu, task, requests, responses>>
    /\ UNCHANGED <<inputVars, strategyVars>>

\* main, lines 143-146: a query error ends the program
AfterQuery ==
    /\ mpc = "query"
    /\ ret.returned
    /\ IF QueryFatal(ret.err)
       THEN mpc' = "fatal" /\ fatal' = "failed to query pods from Kubernetes API"
       ELSE mpc' = "post" /\ fatal' = fatal
    /\ UNCHANGED <<mainInputs, resolved, matchedSet, nodeListings, gscan, presented, printed>>
    /\ UNCHANGED <<inputVars, groupVars, strategyVars>>

\* toPodList (print.go, lines 52-59): the Pods of the rows, in order, under
\* the table's list metadata; Items is nil for a table without rows. It is
\* applied to tables whose rows hold Pods (the type assertion of line 55
\* panics on any other row).
toPodList(resp) ==
    [Items    |-> IF resp.Rows.elems = <<>> THEN NilSlice ELSE SliceOf(resp.Rows.elems),
     ListMeta |-> [ResourceVersion |-> resp.ResourceVersion, Continue |-> resp.Continue]]

\* --------------------------------------------------- main: after the query
\* main, lines 148-159: the DaemonSet filter unless --include-daemonsets,
\* the sort, the print; a failing type assertion panics
PostProcess ==
    /\ mpc = "post"
    /\ IF PostPanics(ret.table, includeDaemonSets)
       THEN /\ mpc' = "panic"
            /\ presented' = presented
            /\ printed' = printed
       ELSE LET resp == IF ~includeDaemonSets THEN filterDaemonSetPods(ret.table) ELSE ret.table
            IN  /\ presented' \in SortFunc(resp.Rows.elems)
                /\ printed' = [resp EXCEPT !.Rows.elems = presented']
                /\ mpc' = "done"
    /\ UNCHANGED <<mainInputs, resolved, matchedSet, nodeListings, gscan, fatal>>
    /\ UNCHANGED <<inputVars, groupVars, strategyVars>>

\* rows as parsePods leaves them: pods of h1 and h2 with no owner, with
\* one owner, with a DaemonSet as second and as only owner
PostPool ==
    {[PodOwned("a", "p2", "h1", <<>>) EXCEPT !.object = "typedPod"],
     [PodOwned("Z", "p10", "h1", <<"ReplicaSet">>) EXCEPT !.object = "typedPod"],
     [PodOwned("a", "p10", "h2", <<"ReplicaSet", "DaemonSet">>) EXCEPT !.object = "typedPod"],
     [PodOwned("b", "p1", "h1", <<"DaemonSet">>) EXCEPT !.object = "typedPod"]}

\* the tables of at most n rows of PostPool
PostTables(n) ==
    {[Rows |-> rows, ResourceVersion |-> <<5>>, Continue |-> EmptyString,
      ColumnDefinitions |-> PodColumns] :
        rows \in {NilSlice} \cup {SliceOf(r) : r \in UNION {[1..k -> PostPool] : k \in 0..n}}}

\* main right after a query returned a table and no error (line 146)
InitPost ==
    /\ nodeNames = <<>>
    /\ numWorkers = 1
    /\ useWatchCache = FALSE
    /\ cluster = <<>>
    /\ revisions = {}
    /\ cpc = "returned"
    /\ next = 1
    /\ semCur = 0
    /\ wgCount = 0
    /\ errs = <<>>
    /\ out = ZeroTable
    /\ mu = 0
    /\ task = <<>>
    /\ requests = <<>>
    /\ responses = <<>>
    /\ \E t \in PostTables(MaxRows) : ret = [returned |-> TRUE, table |-> t, err |-> <<>>]
    /\ heuristicTotalNodes = 0
    /\ matchedNodes = 2
    /\ queryStrategy = queryAllPods
    /\ mpc = "post"
    /\ argNodeNames = <<"h1", "h2">>
    /\ selectors = <<>>
    /\ strategyFlag = queryAllPods
    /\ includeDaemonSets \in BOOLEAN
    /\ posArgs = argNodeNames
    /\ transport = [restCfg |-> ConfiguredCfg(numWorkers), podsCfg |-> FreshCfg]
    /\ firstRun = NoRun
    /\ nodeList = <<>>
    /\ resolved = NotResolved
    /\ matchedSet = {"h1", "h2"}
    /\ nodeListings = 0
    /\ gscan = IdleScan
    /\ presented = <<>>
    /\ printed = ZeroTable
    /\ fatal = ""

NextPost == PostProcess

SpecPost == InitPost /\ [][NextPost]_vars

\* ------------------------------------------------------ main as a whole
\* five nodes: a selector that matches one of them leads chooseStrategy to
\* by-node, one that matches two to all-pods
MainNodes ==
    <<[name |-> "h1", labels |-> [tier |-> "web", zone |-> "east"]],
      [name |-> "h2", labels |-> [tier |-> "db", zone |-> "east"]],
      [name |-> "h3", labels |-> [tier |-> "db", zone |-> "west"]],
      [name |-> "h4", labels |-> [tier |-> "cache"]],
      [name |-> "h5", labels |-> [zone |-> "west"]]>>

\* tier=web
SelWeb == <<[key |-> "tier", op |-> "=", value |-> "web"]>>

\* zone=east
SelEast == <<[key |-> "zone", op |-> "=", value |-> "east"]>>

\* tier=db,zone!=west
SelDbNotWest == <<[key |-> "tier", op |-> "=", value |-> "db"],
                  [key |-> "zone", op |-> "!=", value |-> "west"]>>

\* tier=none
SelNone == <<[key |-> "tier", op |-> "=", value |-> "none"]>>

\* the argument that parses to the selector
SelectorText(selector) ==
    CASE selector = SelWeb       -> "tier=web"
      [] selector = SelEast      -> "zone=east"
      [] selector = SelDbNotWest -> "tier=db,zone!=west"
      [] selector = SelNone      -> "tier=none"

\* the selector lists tried
MainSelectorLists == {<<>>, <<SelWeb>>, <<SelEast>>, <<SelWeb, SelDbNotWest>>, <<SelNone>>}

\* the explicit host lists tried
MainArgLists == {<<>>, <<"h1">>, <<"h1", "h1">>, <<"h2", "h1">>}

\* the values of --strategy tried
StrategyFlags == {"", queryPodPerNodeInParallel, queryAllPods, "fastest"}

\* pods on h1 (one of them of a DaemonSet), on h2 and on h3
MainCluster ==
    <<PodOwned("b", "p2", "h1", <<"ReplicaSet">>),
      PodOwned("a", "p1", "h3", <<>>),
      PodOwned("a", "p10", "h2", <<"ReplicaSet">>),
      PodOwned("a", "p1", "h1", <<"DaemonSet">>)>>

\* main after parsePosArgs (line 93): some positional argument was given
InitMain ==
    /\ nodeNames = <<>>
    /\ numWorkers \in 1..MaxWorkers
    /\ useWatchCache = FALSE
    /\ cluster = MainCluster
    /\ revisions = SmallRevisions
    /\ cpc = "idle"
    /\ next = 1
    /\ semCur = 0
    /\ wgCount = 0
    /\ errs = <<>>
    /\ out = ZeroTable
    /\ mu = 0
    /\ task = <<>>
    /\ requests = <<>>
    /\ responses = <<>>
    /\ ret = [returned |-> FALSE, table |-> ZeroTable, err |-> <<>>]
    /\ heuristicTotalNodes = 0
    /\ matchedNodes = 0
    /\ queryStrategy = ""
    /\ mpc = "resolve"
    /\ argNodeNames \in MainArgLists
    /\ selectors \in MainSelectorLists
    /\ argNodeNames # <<>> \/ selectors # <<>>
    /\ strategyFlag \in StrategyFlags
    /\ includeDaemonSets \in BOOLEAN
    /\ posArgs = argNodeNames \o [k \in DOMAIN selectors |-> SelectorText(selectors[k])]
    /\ transport = [restCfg |-> ConfiguredCfg(numWorkers), podsCfg |-> FreshCfg]
    /\ firstRun = NoRun
    /\ nodeList = MainNodes
    /\ resolved = NotResolved
    /\ matchedSet = {}
    /\ nodeListings = 0
    /\ gscan = IdleScan
    /\ presented = <<>>
    /\ printed = ZeroTable
    /\ fatal = ""

NextMain ==
    \/ Resolve
    \/ ResolveError
    \/ Strategy
    \/ MakePodsClient
    \/ MakePodsClientError
    \/ DispatchAllPods
    \/ DispatchByNode
    \/ DispatchUnknown
    \/ GlobalSend
    \/ GlobalRecvError
    \/ GlobalRecvPage
    \/ \E i \in DOMAIN nodeNames : Go(i)
    \/ \E i \in DOMAIN nodeNames : SendRequest(i)
    \/ \E i \in DOMAIN nodeNames : RecvError(i)
    \/ \E i \in DOMAIN nodeNames : RecvPage(i)
    \/ \E i \in DOMAIN nodeNames : Lock(i)
    \/ \E i \in DOMAIN nodeNames : MergeUnlock(i)
    \/ \E i \in DOMAIN nodeNames : Exit(i)
    \/ Wait
    \/ AfterQuery
    \/ PostProcess

SpecMain == InitMain /\ [][NextMain]_vars

\* ------------------------------------------------ one scan, odd payloads
\* what a row's payload can be when it arrives: raw bytes of a Pod, raw
\* bytes of an object of another kind, raw bytes that do not decode, an
\* already typed Pod, an already typed object of another kind
PayloadKinds == {"rawPod", "rawOther", "rawBad", "typedPod", "typedOther"}

\* the names of the pods of ParseClusters, by position
ParseNames == <<"p0", "p1", "p2", "p3">>

\* the pod lists of at most n pods of h1, with every choice of payloads
ParseClusters(n) ==
    UNION {{[k \in 1..len |-> [Pod("a", ParseNames[k], "h1") EXCEPT !.object = kinds[k]]] :
                kinds \in [1..len -> PayloadKinds]} : len \in 0..n}

\* h1 scanned by one worker
InitParse ==
    /\ nodeNames = <<"h1">>
    /\ numWorkers = 1
    /\ useWatchCache = FALSE
    /\ cluster \in ParseClusters(MaxRows)
    /\ revisions = {<<5>>}
    /\ GroupInit
    /\ heuristicTotalNodes = 0
    /\ matchedNodes = Len(nodeNames)
    /\ queryStrategy = queryPodPerNodeInParallel
    /\ MainAtCall

SpecParse == InitParse /\ [][Next]_vars

\* ------------------------------------------------ main from the arguments
\* the arguments tried: host names (the empty one too), selectors of the
\* three forms, and two strings that labels.Parse rejects
ArgUniverse ==
    {"", "h1", "h2", "tier=web", "zone in (east)", "tier=db,zone!=west", "x in ", "h 1"}

\* main after flagSet.Parse (line 76)
InitArgs ==
    /\ nodeNames = <<>>
    /\ numWorkers = 2
    /\ useWatchCache = FALSE
    /\ cluster = MainCluster
    /\ revisions = {<<5>>}
    /\ cpc = "idle"
    /\ next = 1
    /\ semCur = 0
    /\ wgCount = 0
    /\ errs = <<>>
    /\ out = ZeroTable
    /\ mu = 0
    /\ task = <<>>
    /\ requests = <<>>
    /\ responses = <<>>
    /\ ret = [returned |-> FALSE, table |-> ZeroTable, err |-> <<>>]
    /\ heuristicTotalNodes = 0
    /\ matchedNodes = 0
    /\ queryStrategy = ""
    /\ mpc = "args"
    /\ posArgs \in UNION {[1..k -> ArgUniverse] : k \in 0..MaxArgs}
    /\ argNodeNames = <<>>
    /\ selectors = <<>>
    /\ strategyFlag \in StrategyFlags
    /\ includeDaemonSets = FALSE
    /\ nodeList = MainNodes
    /\ transport = [restCfg |-> FreshCfg, podsCfg |-> FreshCfg]
    /\ firstRun = NoRun
    /\ resolved = NotResolved
    /\ matchedSet = {}
    /\ nodeListings = 0
    /\ gscan = IdleScan
    /\ presented = <<>>
    /\ printed = ZeroTable
    /\ fatal = ""

NextArgs ==
    \/ ParseArgs
    \/ Configure
    \/ ConfigError
    \/ NextMain

SpecArgs == InitArgs /\ [][NextArgs]_vars

\* ------------------------------------------------ main: the rate budget
\* the --workers values tried: the flag is an int64 that is not validated;
\* 5592407 and 16777217 are values whose triple, or which themselves, have
\* no float32
RateWorkers == (-1 .. MaxRateWorkers) \cup {5592405, 5592407, 16777217}

\* main after parsePosArgs, up to the call of a query function
InitRate ==
    /\ nodeNames = <<>>
    /\ numWorkers \in RateWorkers
    /\ useWatchCache = FALSE
    /\ cluster = MainCluster
    /\ revisions = {<<5>>}
    /\ cpc = "idle"
    /\ next = 1
    /\ semCur = 0
    /\ wgCount = 0
    /\ errs = <<>>
    /\ out = ZeroTable
    /\ mu = 0
    /\ task = <<>>
    /\ requests = <<>>
    /\ responses = <<>>
    /\ ret = [returned |-> FALSE, table |-> ZeroTable, err |-> <<>>]
    /\ heuristicTotalNodes = 0
    /\ matchedNodes = 0
    /\ queryStrategy = ""
    /\ mpc = "config"
    /\ argNodeNames = <<"h1">>
    /\ selectors \in {<<>>, <<SelWeb>>}
    /\ posArgs = argNodeNames \o [k \in DOMAIN selectors |-> SelectorText(selectors[k])]
    /\ strategyFlag = ""
    /\ includeDaemonSets = FALSE
    /\ nodeList = MainNodes
    /\ transport = [restCfg |-> FreshCfg, podsCfg |-> FreshCfg]
    /\ firstRun = NoRun
    /\ resolved = NotResolved
    /\ matchedSet = {}
    /\ nodeListings = 0
    /\ gscan = IdleScan
    /\ presented = <<>>
    /\ printed = ZeroTable
    /\ fatal = ""

NextRate ==
    \/ Configure
    \/ ConfigError
    \/ Resolve
    \/ ResolveError
    \/ Strategy
    \/ MakePodsClient
    \/ MakePodsClientError

SpecRate == InitRate /\ [][NextRate]_vars

\* ------------------------------------------- scatter-gather, with progress
\* every goroutine that can take a step eventually takes one, and every
\* request sent is eventually answered, with a page or with an error
SpecFair == Init /\ [][Next]_vars /\ WF_vars(Next)

\* --------------------------------------- two invocations, one per strategy
\* a second invocation of the program with the same arguments against the
\* same cluster, with --strategy set to the strategy the first one did not
\* use; what the first invocation printed is kept for comparison
SecondInvocation ==
    /\ mpc = "done"
    /\ ~firstRun.done
    /\ firstRun' = [done |-> TRUE, strategy |-> queryStrategy, presented |-> presented]
    /\ strategyFlag' = IF queryStrategy = queryAllPods
                       THEN queryPodPerNodeInParallel ELSE queryAllPods
    /\ mpc' = "resolve"
    /\ nodeNames' = <<>>
    /\ cpc' = "idle"
    /\ next' = 1
    /\ semCur' = 0
    /\ wgCount' = 0
    /\ errs' = <<>>
    /\ out' = ZeroTable
    /\ mu' = 0
    /\ task' = <<>>
    /\ requests' = <<>>
    /\ responses' = <<>>
    /\ ret' = [returned |-> FALSE, table |-> ZeroTable, err |-> <<>>]
    /\ heuristicTotalNodes' = 0
    /\ matchedNodes' = 0
    /\ queryStrategy' = ""
    /\ resolved' = NotResolved
    /\ matchedSet' = {}
    /\ nodeListings' = 0
    /\ gscan' = IdleScan
    /\ presented' = <<>>
    /\ printed' = ZeroTable
    /\ UNCHANGED <<numWorkers, useWatchCache, cluster, revisions>>
    /\ UNCHANGED <<posArgs, argNodeNames, selectors, includeDaemonSets, nodeList, transport, fatal>>

\* the explicit host lists tried, the empty host name among them
BothArgLists == {<<"h1">>, <<"h2", "h1">>, <<"">>, <<"", "h1">>}

\* main after parsePosArgs, with a strategy forced
InitBoth ==
    /\ nodeNames = <<>>
    /\ numWorkers = 2
    /\ useWatchCache = FALSE
    /\ cluster = MainCluster
    /\ revisions = {<<5>>}
    /\ cpc = "idle"
    /\ next = 1
    /\ semCur = 0
    /\ wgCount = 0
    /\ errs = <<>>
    /\ out = ZeroTable
    /\ mu = 0
    /\ task = <<>>
    /\ requests = <<>>
    /\ responses = <<>>
    /\ ret = [returned |-> FALSE, table |-> ZeroTable, err |-> <<>>]
    /\ heuristicTotalNodes = 0
    /\ matchedNodes = 0
    /\ queryStrategy = ""
    /\ mpc = "resolve"
    /\ argNodeNames \in BothArgLists
    /\ selectors \in {<<>>, <<SelEast>>}
    /\ posArgs = argNodeNames \o [k \in DOMAIN selectors |-> SelectorText(selectors[k])]
    /\ strategyFlag \in {queryPodPerNodeInParallel, queryAllPods}
    /\ includeDaemonSets \in BOOLEAN
    /\ nodeList = MainNodes
    /\ transport = [restCfg |-> ConfiguredCfg(numWorkers), podsCfg |-> FreshCfg]
    /\ firstRun = NoRun
    /\ resolved = NotResolved
    /\ matchedSet = {}
    /\ nodeListings = 0
    /\ gscan = IdleScan
    /\ presented = <<>>
    /\ printed = ZeroTable
    /\ fatal = ""

NextBoth ==
    \/ Resolve
    \/ ResolveError
    \/ Strategy
    \/ MakePodsClient
    \/ MakePodsClientError
    \/ DispatchAllPods
    \/ DispatchByNode
    \/ GlobalSend
    \/ GlobalRecvError
    \/ GlobalRecvPage
    \/ \E i \in DOMAIN nodeNames : Go(i)
    \/ \E i \in DOMAIN nodeNames : SendRequest(i)
    \/ \E i \in DOMAIN nodeNames : RecvError(i)
    \/ \E i \in DOMAIN nodeNames : RecvPage(i)
    \/ \E i \in DOMAIN nodeNames : Lock(i)
    \/ \E i \in DOMAIN nodeNames : MergeUnlock(i)
    \/ \E i \in DOMAIN nodeNames : Exit(i)
    \/ Wait
    \/ AfterQuery
    \/ PostProcess
    \/ SecondInvocation

SpecBoth == InitBoth /\ [][NextBoth]_vars

\* ------------------------------------------- main, clusters of every size
\* the node lists tried: the first n nodes of MainNodes, from none to all
SizedNodeLists == {SubSeq(MainNodes, 1, n) : n \in 0..Len(MainNodes)}

\* the selector lists tried: one that matches no node, one that matches h1,
\* one that matches h1 and h2
SizedSelectorLists == {<<SelNone>>, <<SelWeb>>, <<SelNone, SelEast>>}

\* main after parsePosArgs (line 93): selectors and no host name were
\* given, --workers may be 0
InitSized ==
    /\ nodeNames = <<>>
    /\ numWorkers \in 0..1
    /\ useWatchCache = FALSE
    /\ cluster = MainCluster
    /\ revisions = {<<5>>}
    /\ cpc = "idle"
    /\ next = 1
    /\ semCur = 0
    /\ wgCount = 0
    /\ errs = <<>>
    /\ out = ZeroTable
    /\ mu = 0
    /\ task = <<>>
    /\ requests = <<>>
    /\ responses = <<>>
    /\ ret = [returned |-> FALSE, table |-> ZeroTable, err |-> <<>>]
    /\ heuristicTotalNodes = 0
    /\ matchedNodes = 0
    /\ queryStrategy = ""
    /\ mpc = "resolve"
    /\ argNodeNames = <<>>
    /\ selectors \in SizedSelectorLists
    /\ posArgs = argNodeNames \o [k \in DOMAIN selectors |-> SelectorText(selectors[k])]
    /\ strategyFlag \in StrategyFlags
    /\ includeDaemonSets \in BOOLEAN
    /\ nodeList \in SizedNodeLists
    /\ transport = [restCfg |-> ConfiguredCfg(numWorkers), podsCfg |-> FreshCfg]
    /\ firstRun = NoRun
    /\ resolved = NotResolved
    /\ matchedSet = {}
    /\ nodeListings = 0
    /\ gscan = IdleScan
    /\ presented = <<>>
    /\ printed = ZeroTable
    /\ fatal = ""

SpecSized == InitSized /\ [][NextMain]_vars

\* ------------------------------------------------- auxiliary definitions
Range(s) == {s[i] : i \in DOMAIN s}

\* the multiset of the elements of a sequence
BagOfSeq(s) == [x \in Range(s) |-> Cardinality({i \in DOMAIN s : s[i] = x})]

\* f[1] \o f[2] \o ... \o f[n] for a sequence of sequences
RECURSIVE Flatten(_)
Flatten(ss) == IF ss = <<>> THEN <<>> ELSE Head(ss) \o Flatten(Tail(ss))

\* the lexicographically greatest string of a non-empty set
LexMax(S) == CHOOSE t \in S : \A u \in S : Compare(u, t) <= 0

Tasks == DOMAIN nodeNames

\* worker i has returned from queryPods without an error
ScanSucceeded(i) == task[i].pc \in {"lock", "merge", "exit", "done"} /\ task[i].err = <<>>

\* worker i's query has failed
Failed(i) == task[i].err # <<>>

\* workers that g.Go has started and whose goroutine has not finished
InFlight == {i \in Tasks : task[i].pc \notin {"idle", "done"}}

\* the rows worker i received, page after page, as parsePods leaves them
ReceivedRows(i) ==
    LET pages == [k \in DOMAIN responses[i] |-> responses[i][k].Rows.elems]
        rows  == Flatten(pages)
    IN  [k \in DOMAIN rows |-> ParseRow(rows[k])]

\* the resource versions of the pages worker i received
ReceivedVersions(i) == {responses[i][k].ResourceVersion : k \in DOMAIN responses[i]}

\* the returned rows as (namespace, name) pairs
ReturnedInstances == [k \in DOMAIN ret.table.Rows.elems |->
                         <<ret.table.Rows.elems[k].namespace, ret.table.Rows.elems[k].name>>]

\* ------------------------------------------------------------- the claims

\* C1 (as claimed): whenever a per-host query failed, the error returned by
\* findPodsByQueryingNodesInParallel is non-nil and the returned table has
\* no rows.
C1_AllOrNothing ==
    (ret.returned /\ \E i \in Tasks : Failed(i))
        => (ret.err # <<>> /\ ret.table.Rows.elems = <<>>)

\* C2 (as claimed): once a worker's query has failed, no per-host query
\* that had not yet started is started.
C2_FailFast ==
    [][(\E i \in Tasks : Failed(i))
          => \A j \in Tasks : task[j].pc = "idle" => task'[j].pc = "idle"]_vars

\* C3: with a worker count of at least 1, the per-host scans in flight are
\* never more than the worker count, and every scan in flight, whatever its
\* page, holds exactly one semaphore slot from its start to its end.
C3_InFlightBounded ==
    numWorkers >= 1
        => /\ Cardinality(InFlight) <= numWorkers
           /\ Cardinality(InFlight) = semCur
           /\ \A i \in Tasks : Len(requests[i]) > 0 => task[i].pc # "idle"

\* C3 witness: one worker, two hosts; the first host's scan is waiting for
\* its second page while the second host has not been started.
C3_Witness ==
    /\ numWorkers = 1
    /\ Len(nodeNames) = 2
    /\ task[1].pc = "recv"
    /\ task[1].page = 1
    /\ task[2].pc = "idle"
    /\ next = 2

\* C4: when every per-host query succeeded, the returned rows are, as a
\* multiset, the rows of all pages of all per-host responses.
C4_RowsAreUnion ==
    (ret.returned /\ ret.err = <<>>)
        => BagOfSeq(ret.table.Rows.elems)
             = BagOfSeq(Flatten([i \in Tasks |-> ReceivedRows(i)]))

\* C4 witness: two hosts, both succeeded, the second host's rows merged
\* first and the first host's response without rows.
C4_Witness ==
    /\ ret.returned
    /\ ret.err = <<>>
    /\ nodeNames = <<"h2", "h1">>
    /\ ReceivedRows(1) = <<>>
    /\ Len(ReceivedRows(2)) = 2
    /\ Len(ret.table.Rows.elems) = 2

\* C5: chooseStrategy returns by-node iff totalHosts = 0 or
\* 4 * matchedHosts < totalHosts, and all-pods otherwise.
C5_ChooseStrategy ==
    queryStrategy # ""
        => /\ queryStrategy \in {"by-node", "all-pods"}
           /\ queryStrategy = "by-node"
                <=> (heuristicTotalNodes = 0 \/ 4 * matchedNodes < heuristicTotalNodes)

\* C5 witness: a ratio of exactly 0.25 (3 of 12) gives all-pods.
C5_Witness ==
    /\ heuristicTotalNodes = 12
    /\ matchedNodes = 3
    /\ queryStrategy = "all-pods"

\* C6 (as claimed): when scatter-gather succeeds, the returned snapshot
\* token is the lexicographic maximum of the tokens of the per-host
\* responses.
C6_MaxToken ==
    (ret.returned /\ ret.err = <<>> /\ nodeNames # <<>>)
        => ret.table.ResourceVersion
             = LexMax({task[i].resp.ResourceVersion : i \in Tasks})

\* C7: the snapshot token of a scan is the lexicographic maximum of the
\* tokens of all its pages, while it runs and when it returns.
C7_ScanToken ==
    \A i \in Tasks :
        /\ (task[i].pc = "send" /\ responses[i] # <<>>)
              => task[i].tableResp.ResourceVersion = LexMax(ReceivedVersions(i))
        /\ ScanSucceeded(i)
              => task[i].resp.ResourceVersion = LexMax(ReceivedVersions(i))

\* C7 witness: pages with tokens "5", "7", "6" in that order give "7".
C7_Witness ==
    \E i \in Tasks :
        /\ ScanSucceeded(i)
        /\ [k \in DOMAIN responses[i] |-> responses[i][k].ResourceVersion]
             = <<(<<5>>), (<<7>>), (<<6>>)>>
        /\ task[i].resp.ResourceVersion = <<7>>

\* C8: the requests of a scan are sequential and chained: at most one
\* request is outstanding; the first carries no continue token; request
\* k+1 exists only when response k carries a continue token and carries
\* that token; after a response without a token no further request is
\* sent, after one with a token the next request has been sent or is the
\* worker's next step; the returned rows are the rows of all pages in
\* arrival order.
C8_Chained ==
    \A i \in Tasks :
        /\ Len(requests[i]) - Len(responses[i])
              = (IF task[i].pc = "recv" \/ (Failed(i) /\ task[i].err[3].kind = "list") THEN 1 ELSE 0)
        /\ requests[i] # <<>> => requests[i][1].continue = <<>>
        /\ \A k \in DOMAIN requests[i] :
              k > 1 => /\ responses[i][k - 1].Continue # EmptyString
                       /\ requests[i][k].continue = <<responses[i][k - 1].Continue>>
        /\ \A k \in DOMAIN responses[i] :
              IF responses[i][k].Continue = EmptyString
              THEN Len(requests[i]) = k /\ task[i].pc # "send"
              ELSE Len(requests[i]) > k \/ task[i].pc = "send"
        /\ ScanSucceeded(i) => task[i].resp.Rows.elems = ReceivedRows(i)

\* C8 witness: a scan of three pages has returned all three rows.
C8_Witness ==
    \E i \in Tasks :
        /\ ScanSucceeded(i)
        /\ Len(requests[i]) = 3
        /\ Len(responses[i]) = 3
        /\ Len(task[i].resp.Rows.elems) = 3

\* C9 (as claimed): a request that carries a continue token does not carry
\* the read-cache hint resourceVersion=0.
C9_HintOnlyFirst ==
    \A i \in Tasks : \A k \in DOMAIN requests[i] :
        requests[i][k].continue # <<>> => requests[i][k].resourceVersion = <<>>

\* C10 (as claimed): the rows scatter-gather returns hold no instance
\* (namespace, name) twice.
C10_NoDuplicates ==
    (ret.returned /\ ret.err = <<>>)
        => \A k, l \in DOMAIN ReturnedInstances :
              k # l => ReturnedInstances[k] # ReturnedInstances[l]

\* C11: once main has post-processed a table, the rows handed to the printer
\* are exactly (as a multiset) the rows of the table whose pod has no owner
\* reference of kind DaemonSet, however many owners of other kinds it has;
\* with --include-daemonsets they are all the rows of the table.
C11_FilterDaemonSets ==
    mpc = "done" =>
        LET rows == ret.table.Rows.elems
            Kept(row) == includeDaemonSets \/ \A k \in DOMAIN row.owners : row.owners[k] # "DaemonSet"
        IN  BagOfSeq(presented) = BagOfSeq(SelectSeq(rows, Kept))

\* a table with a ReplicaSet-and-DaemonSet-owned pod and a ReplicaSet-owned
\* pod was filtered: the first is dropped, the second is kept
C11_Witness ==
    /\ mpc = "done"
    /\ ~includeDaemonSets
    /\ \E k \in DOMAIN ret.table.Rows.elems :
           ret.table.Rows.elems[k].owners = <<"ReplicaSet", "DaemonSet">>
    /\ \E k \in DOMAIN presented : presented[k].owners = <<"ReplicaSet">>
    /\ Len(presented) < Len(ret.table.Rows.elems)

\* the sort key of a row: host name, namespace, name, as bytes
SortKey(row) == <<Bytes(row.nodeName), Bytes(row.namespace), Bytes(row.name)>>

\* key a is before key b, or equal to it, comparing the components
\* lexicographically in their order
KeyLeq(a, b) ==
    \/ Compare(a[1], b[1]) < 0
    \/ a[1] = b[1] /\ Compare(a[2], b[2]) < 0
    \/ a[1] = b[1] /\ a[2] = b[2] /\ Compare(a[3], b[3]) <= 0

\* the row passes main's DaemonSet filter
PassesFilter(row) == includeDaemonSets \/ \A k \in DOMAIN row.owners : row.owners[k] # "DaemonSet"

\* the rows of all pages all workers received, host after host
PooledRows == Flatten([i \in DOMAIN nodeNames |-> ReceivedRows(i)])

\* C12: the rows handed to the printer are a permutation of the filtered
\* rows of the query's table, ascending by (host, namespace, name); rows
\* with equal keys are equal, so this arrangement is the only one, and after
\* scatter-gather it is the arrangement of the filtered rows of the
\* per-host responses, in whatever order the workers merged them.
C12_SortedOutput ==
    mpc = "done" =>
        /\ BagOfSeq(presented) = BagOfSeq(SelectSeq(ret.table.Rows.elems, PassesFilter))
        /\ \A i, j \in DOMAIN presented :
               /\ i < j => KeyLeq(SortKey(presented[i]), SortKey(presented[j]))
               /\ SortKey(presented[i]) = SortKey(presented[j]) => presented[i] = presented[j]
        /\ queryStrategy = queryPodPerNodeInParallel =>
               BagOfSeq(presented) = BagOfSeq(SelectSeq(PooledRows, PassesFilter))

\* scatter-gather merged a later host's rows first, and the sort moved rows
C12_Witness ==
    /\ mpc = "done"
    /\ queryStrategy = queryPodPerNodeInParallel
    /\ Len(presented) >= 2
    /\ presented # ret.table.Rows.elems
    /\ ret.table.Rows.elems[1].nodeName = "h2"
    /\ presented[1].nodeName = "h1"

\* the names of the hosts of the node list that match some selector given
MatchingHosts ==
    {nodeList[i].name : i \in {j \in DOMAIN nodeList :
        \E k \in DOMAIN selectors : SelectorMatches(selectors[k], nodeList[j].labels)}}

\* C13: once main has computed its target set, the set is the union of the
\* explicit host names and the names of the hosts that match a selector.
C13_TargetUnion ==
    mpc \notin {"resolve", "fatal"} =>
        matchedSet = Range(argNodeNames) \cup MatchingHosts

\* the explicit name h1 with a selector that matches h1 and h2 gave {h1, h2}
C13_Witness ==
    /\ mpc = "strategy"
    /\ argNodeNames = <<"h1">>
    /\ resolved.called /\ resolved.nodes = {"h1", "h2"}
    /\ matchedSet = {"h1", "h2"}

\* the scans of host h that scatter-gather started: the requests without a
\* continue token that workers of h sent
ScansOf(h) ==
    {<<i, k>> \in UNION {{<<i, k>> : k \in DOMAIN requests[i]} : i \in DOMAIN nodeNames} :
        nodeNames[i] = h /\ requests[i][k].continue = <<>>}

\* C14: when scatter-gather has returned without an error, every host of
\* the target set was scanned exactly once and no other host was scanned,
\* however often its name was given.
C14_EachHostOnce ==
    (queryStrategy = queryPodPerNodeInParallel /\ ret.returned /\ ret.err = <<>>) =>
        /\ \A h \in matchedSet : Cardinality(ScansOf(h)) = 1
        /\ \A i \in DOMAIN nodeNames : nodeNames[i] \in matchedSet /\ requests[i] # <<>>

\* h1 was named twice and matched by a selector, h2 was named once, and
\* scatter-gather returned without an error
C14_Witness ==
    /\ queryStrategy = queryPodPerNodeInParallel
    /\ ret.returned /\ ret.err = <<>>
    /\ argNodeNames = <<"h1", "h1">>
    /\ resolved.called /\ resolved.nodes = {"h1", "h2"}
    /\ Cardinality(ScansOf("h1")) = 1
    /\ Cardinality(ScansOf("h2")) = 1

\* C15: resolveNodeNames, once called, has sent exactly one node listing
\* (and none is sent without it); it returned either the names of the hosts
\* that match at least one selector together with the number of hosts
\* listed, or, when the listing failed, an error with a nil set and count 0.
C15_ResolveNodeNames ==
    /\ nodeListings = (IF resolved.called THEN 1 ELSE 0)
    /\ resolved.called =>
           IF resolved.err
           THEN resolved.isNil /\ resolved.nodes = {} /\ resolved.total = 0
           ELSE /\ ~resolved.isNil
                /\ resolved.nodes = MatchingHosts
                /\ resolved.total = Len(nodeList)

\* two selectors, each matching one host of five: both hosts are returned
C15_Witness ==
    /\ resolved.called /\ ~resolved.err
    /\ selectors = <<SelWeb, SelDbNotWest>>
    /\ resolved.nodes = {"h1", "h2"}
    /\ resolved.total = 5
    /\ nodeListings = 1

\* the rows worker i accumulated over its pages, as they arrived
ArrivedRows(i) == Flatten([k \in DOMAIN responses[i] |-> responses[i][k].Rows.elems])

\* worker i has received the last page of its scan
LastPageReceived(i) ==
    /\ responses[i] # <<>>
    /\ responses[i][Len(responses[i])].Continue = EmptyString
    /\ task[i].pc # "recv"

\* C16 (as claimed): every row of a scan that returned without an error
\* holds a typed Pod.
C16_RowsArePods ==
    \A i \in Tasks :
        ScanSucceeded(i) =>
            \A k \in DOMAIN task[i].resp.Rows.elems : task[i].resp.Rows.elems[k].object = "typedPod"

\* C17: when a scan has received its last page and the payload of some
\* accumulated row does not decode, the scan has returned an error and the
\* zero table, and nothing of it reaches the accumulator; the error names
\* the lowest row index at which parsePods fails: that of the first
\* undecodable row, unless an already typed non-Pod row precedes it.
C17_DecodeFailure ==
    \A i \in Tasks :
        LET rows      == ArrivedRows(i)
            undecoded == {k \in DOMAIN rows : rows[k].object = "rawBad"}
            mistyped  == {k \in DOMAIN rows : rows[k].object = "typedOther"}
            first     == CHOOSE k \in undecoded \cup mistyped : \A j \in undecoded \cup mistyped : k <= j
        IN  (LastPageReceived(i) /\ undecoded # {}) =>
                /\ Failed(i)
                /\ task[i].resp = ZeroTable
                /\ out = ZeroTable
                /\ task[i].err[3].row = first - 1
                /\ task[i].err[3].kind = (IF first \in undecoded THEN "decode" ELSE "type")

\* the second and the third row of three do not decode: the error names
\* row 1 (counting from 0)
C17_Witness ==
    /\ Len(cluster) = 3
    /\ cluster[1].object = "rawPod" /\ cluster[2].object = "rawBad" /\ cluster[3].object = "rawBad"
    /\ LastPageReceived(1)
    /\ Failed(1)
    /\ task[1].err[3] = [kind |-> "decode", row |-> 1]

\* --strategy is set and names neither strategy
UnknownStrategyGiven == strategyFlag \notin {"", queryPodPerNodeInParallel, queryAllPods}

\* no request for pods was sent, by either query function
NoPodRequest ==
    /\ gscan.requests = <<>>
    /\ \A i \in DOMAIN nodeNames : requests[i] = <<>>

\* C18 (as claimed): when main raises the unknown-strategy error, no listing
\* request has been sent, neither for nodes nor for pods.
C18_BeforeAnyListing ==
    fatal = "unknown pod query strategy" => (nodeListings = 0 /\ NoPodRequest)

\* C18 (amended): with an unknown --strategy main never calls a query
\* function and ends in a fatal error; when that error is the
\* unknown-strategy error, no request for pods has been sent, and a node
\* listing has been sent exactly when selectors were given.
C18_BeforeAnyQuery ==
    /\ UnknownStrategyGiven =>
           /\ mpc \in {"resolve", "strategy", "client", "dispatch", "fatal"}
           /\ NoPodRequest
           /\ ~ret.returned
    /\ fatal = "unknown pod query strategy" =>
           /\ UnknownStrategyGiven
           /\ NoPodRequest
           /\ nodeListings = (IF selectors # <<>> THEN 1 ELSE 0)

\* the unknown-strategy error after the nodes were listed for a selector
C18_Witness ==
    /\ fatal = "unknown pod query strategy"
    /\ mpc = "fatal"
    /\ selectors # <<>>
    /\ nodeListings = 1

\* C19 (as claimed): findPodsByQueryingNodesInParallel returns at most one
\* error, that of one failed host.
C19_FirstErrorOnly ==
    ret.returned => Len(ret.err) <= 1

\* some query for pods has failed, of either query function
AnyQueryFailed == gscan.err # <<>> \/ \E i \in DOMAIN nodeNames : Failed(i)

\* C20: in every step of main, a state in which main has ended with a fatal
\* error is left by no step; once a query has failed, main is not and will
\* not be in post-processing or printing and nothing has been handed to
\* the printer; and requests for pods are never sent by both query functions
\* in one invocation.
C20_FatalEnds ==
    [][/\ mpc # "fatal"
       /\ AnyQueryFailed' => (mpc' \notin {"post", "done"} /\ presented' = <<>>)
       /\ ~(gscan'.requests # <<>> /\ \E i \in DOMAIN nodeNames' : requests'[i] # <<>>)]_vars

\* scatter-gather received rows of one host, the query of another host
\* failed, and main ended with the query error, nothing printed
C20_Witness ==
    /\ mpc = "fatal"
    /\ fatal = "failed to query pods from Kubernetes API"
    /\ \E i \in DOMAIN nodeNames : Failed(i)
    /\ \E i \in DOMAIN nodeNames : ScanSucceeded(i) /\ ReceivedRows(i) # <<>>
    /\ presented = <<>>

\* argument a goes to labels.Parse: it contains '=' or a space
IsSelectorArg(a) == \E k \in DOMAIN ArgChars(a) : ArgChars(a)[k] \in {"=", " "}

\* some argument goes to labels.Parse and is rejected
MalformedGiven == \E k \in DOMAIN posArgs : IsSelectorArg(posArgs[k]) /\ ~LabelsParse(posArgs[k]).ok

\* C21: when some argument is a malformed selector, then once parsePosArgs
\* has run main has ended with the argument error, holds no selector and no
\* host name, and has sent no request: no node listing, no pod query.
C21_MalformedSelector ==
    (MalformedGiven /\ mpc # "args") =>
        /\ mpc = "fatal"
        /\ fatal = "failed to parse arguments"
        /\ selectors = <<>>
        /\ argNodeNames = <<>>
        /\ nodeListings = 0
        /\ NoPodRequest
        /\ ~ret.returned

\* a host name followed by a malformed selector: the host name is dropped
C21_Witness ==
    /\ posArgs = <<"h1", "x in ">>
    /\ mpc = "fatal"
    /\ fatal = "failed to parse arguments"
    /\ argNodeNames = <<>>

\* C22: for a non-empty argument list without a malformed selector, once
\* parsePosArgs has run the host names are the arguments with neither '='
\* nor a space, in their order, and the selectors are the parses of the
\* other arguments, one each, in their order; the two lengths add up to the
\* number of arguments. An empty argument list ends in the argument error.
C22_Classification ==
    mpc # "args" =>
        IF posArgs = <<>>
        THEN mpc = "fatal" /\ fatal = "failed to parse arguments"
        ELSE ~MalformedGiven =>
               LET hostArgs == SelectSeq(posArgs, LAMBDA a : ~IsSelectorArg(a))
                   selArgs  == SelectSeq(posArgs, IsSelectorArg)
               IN  /\ argNodeNames = hostArgs
                   /\ selectors = [k \in DOMAIN selArgs |-> LabelsParse(selArgs[k]).selector]
                   /\ Len(argNodeNames) + Len(selectors) = Len(posArgs)
                   /\ fatal # "failed to parse arguments"

\* a set-based selector (it has spaces and no '=') before a host name
C22_Witness ==
    /\ posArgs = <<"zone in (east)", "h2">>
    /\ mpc = "config"
    /\ argNodeNames = <<"h2">>
    /\ Len(selectors) = 1

\* C23: for the table a query returned, filterDaemonSetPods applied to its
\* own result gives the rows of that result, no more and no fewer and as the
\* same slice; and what main prints after filtering once is a permutation
\* of the rows left after filtering twice.
C23_FilterIdempotent ==
    LET once  == filterDaemonSetPods(ret.table)
        twice == filterDaemonSetPods(once)
    IN  /\ twice.Rows = once.Rows
        /\ (mpc = "done" /\ ~includeDaemonSets) =>
               BagOfSeq(presented) = BagOfSeq(twice.Rows.elems)

\* a table with a DaemonSet pod between two kept pods was filtered
C23_Witness ==
    /\ mpc = "done"
    /\ ~includeDaemonSets
    /\ Len(ret.table.Rows.elems) = 3
    /\ IsDaemonSetOwned(ret.table.Rows.elems[2].owners)
    /\ Len(filterDaemonSetPods(ret.table).Rows.elems) = 2
    /\ Len(presented) = 2

\* C24 (as claimed): once the client for the pod queries is made, its REST
\* config has QPS = 3 x workers and Burst = 9 x workers.
C24_PodsRateBudget ==
    mpc = "dispatch" =>
        /\ transport.podsCfg.QPS = 3 * numWorkers
        /\ transport.podsCfg.Burst = 9 * numWorkers

\* the strategy is decided, it is the flag's when the flag names one and
\* chooseStrategy's when the flag is empty, and only the query function of
\* that strategy has sent requests
StrategyAsDecided ==
    mpc \in {"client", "dispatch", "query", "post", "done"} =>
        /\ strategyFlag \in {queryPodPerNodeInParallel, queryAllPods} => queryStrategy = strategyFlag
        /\ strategyFlag = "" =>
               queryStrategy = chooseStrategy(heuristicTotalNodes, Cardinality(matchedSet))
        /\ queryStrategy = queryPodPerNodeInParallel => gscan.requests = <<>>
        /\ queryStrategy = queryAllPods => \A i \in DOMAIN nodeNames : requests[i] = <<>>
        /\ mpc \in {"query", "post", "done"} =>
               queryStrategy \in {queryPodPerNodeInParallel, queryAllPods}

\* C25: after every step of main the strategy is as decided (the flag's
\* when it names one, whatever the host counts; chooseStrategy's only when
\* the flag is empty; only that strategy's query function runs), and once
\* decided it is not changed by any step.
C25_OverrideRespected ==
    [][/\ StrategyAsDecided'
       /\ queryStrategy # "" => queryStrategy' = queryStrategy]_vars

\* all-pods was forced where chooseStrategy says by-node (1 host of 5
\* matched), and the cluster-wide scan ran to the end
C25_Witness ==
    /\ strategyFlag = queryAllPods
    /\ heuristicTotalNodes = 5 /\ Cardinality(matchedSet) = 1
    /\ chooseStrategy(heuristicTotalNodes, Cardinality(matchedSet)) = queryPodPerNodeInParallel
    /\ queryStrategy = queryAllPods
    /\ gscan.requests # <<>>
    /\ mpc = "done"

\* the rows of the pages the cluster-wide scan received, in the order
\* received, as parsePods leaves them
GlobalRows ==
    LET rows == Flatten([k \in DOMAIN gscan.responses |-> gscan.responses[k].Rows.elems])
    IN  [k \in DOMAIN rows |-> ParseRow(rows[k])]

\* C26: when findPodsByQueryingAllPods has returned without an error, the
\* pages it received hold every pod of the cluster once, and the rows it
\* returned are, in that order, those of them whose host is in the target
\* set; the token it returned is the greatest token of the pages.
C26_GlobalScan ==
    (queryStrategy = queryAllPods /\ ret.returned /\ ret.err = <<>>) =>
        /\ GlobalRows = [k \in DOMAIN cluster |-> ParseRow(cluster[k])]
        /\ ret.table.Rows.elems = SelectSeq(GlobalRows, LAMBDA row : row.nodeName \in matchedSet)
        /\ ret.table.ResourceVersion =
               LexMax({gscan.responses[k].ResourceVersion : k \in DOMAIN gscan.responses})

\* the scan of four pods for the target set {h1, h2}: the pod of h3 is
\* dropped, the three others are returned
C26_Witness ==
    /\ queryStrategy = queryAllPods
    /\ ret.returned /\ ret.err = <<>>
    /\ matchedSet = {"h1", "h2"}
    /\ Len(GlobalRows) = 4
    /\ Len(ret.table.Rows.elems) = 3
    /\ \E k \in DOMAIN GlobalRows : GlobalRows[k].nodeName = "h3"
    /\ ret.table.ResourceVersion = <<5>>
    /\ gscan.responses[Len(gscan.responses)].ResourceVersion = <<1, 0>>

\* C27 (as claimed): every request a worker of scatter-gather has sent
\* carries the field selector of the worker's own host, and every row
\* scatter-gather returns is of a pod on one of the hosts handed to it.
C27_HostFilterAlways ==
    /\ \A i \in Tasks : \A k \in DOMAIN requests[i] :
           requests[i][k].fieldSelector = <<nodeNames[i]>>
    /\ ret.returned =>
           \A k \in DOMAIN ret.table.Rows.elems :
               ret.table.Rows.elems[k].nodeName \in Range(nodeNames)

\* the workers between mu.Lock and mu.Unlock
InMergeRegion == {i \in Tasks : task[i].pc = "merge"}

\* C28: in every step of scatter-gather, at most one worker is between
\* mu.Lock and mu.Unlock and it is the holder of the mutex; the accumulator
\* is changed only by the step of the holder that ends with mu.Unlock, after
\* which the mutex is free; a worker that has finished does not hold the
\* mutex; and the coordinator takes the accumulator as its result only when
\* every worker has finished.
C28_MergeRegion ==
    [][/\ Cardinality(InMergeRegion') <= 1
       /\ \A i \in Tasks : (task'[i].pc = "merge") <=> (mu' = i)
       /\ out' # out =>
              \E i \in Tasks : /\ mu = i /\ task[i].pc = "merge"
                               /\ task'[i].pc = "exit" /\ mu' = 0
       /\ \A i \in Tasks : task'[i].pc \in {"exit", "done"} => mu' # i
       /\ ret' # ret =>
              /\ \A i \in Tasks : task[i].pc = "done"
              /\ mu = 0
              /\ ret'.table = out]_vars

\* one worker is merging while the other waits for the mutex
C28_Witness ==
    /\ Len(nodeNames) = 2
    /\ \E i, j \in Tasks : /\ task[i].pc = "merge" /\ mu = i
                           /\ task[j].pc = "lock"
                           /\ task[j].resp.Rows.elems # <<>>

\* C29 (as claimed): findPodsByQueryingNodesInParallel eventually returns,
\* for every host list and every worker count.
C29_Terminates == <>ret.returned

\* C30 (as claimed): when two invocations with the same arguments against
\* the same cluster, one per strategy, have both printed, they have printed
\* the same row sequence.
C30_StrategiesEquivalent ==
    (firstRun.done /\ mpc = "done") => presented = firstRun.presented

\* C31 (as claimed): the table a completed scan returns has an empty
\* continue token in its list metadata, whether the scan took one page or
\* several, so the PodList made of it has an empty continue token too.
C31_NoContinueToken ==
    \A i \in Tasks :
        ScanSucceeded(i) =>
            /\ task[i].resp.Continue = EmptyString
            /\ toPodList(task[i].resp).ListMeta.Continue = EmptyString

\* sub is what is left of full when the rows owned by a DaemonSet are taken
\* out and the others stay in their places relative to each other
KeptInOrder(sub, full) ==
    \E f \in [DOMAIN sub -> DOMAIN full] :
        /\ \A i, j \in DOMAIN sub : i < j => f[i] < f[j]
        /\ \A k \in DOMAIN sub : sub[k] = full[f[k]]
        /\ \A m \in DOMAIN full :
               (\E k \in DOMAIN sub : f[k] = m) <=> ~IsDaemonSetOwned(full[m].owners)

\* every field of table a but its rows is the same in table b
SameButRows(a, b) ==
    /\ a.ResourceVersion = b.ResourceVersion
    /\ a.Continue = b.Continue
    /\ a.ColumnDefinitions = b.ColumnDefinitions

\* C32: post-processing changes only the rows. The table handed to print
\* has the snapshot token, the continue token and the column definitions
\* of the table the query returned, and its rows are rows of that table;
\* filterDaemonSetPods changes nothing but the rows and keeps the surviving
\* rows in their relative order.
C32_OnlyRowsChange ==
    mpc = "done" =>
        LET filtered == filterDaemonSetPods(ret.table)
        IN  /\ SameButRows(printed, ret.table)
            /\ BagOfSeq(printed.Rows.elems)
                 = BagOfSeq(SelectSeq(ret.table.Rows.elems, PassesFilter))
            /\ SameButRows(filtered, ret.table)
            /\ KeptInOrder(filtered.Rows.elems, ret.table.Rows.elems)
            /\ includeDaemonSets => printed.Rows.isNil = ret.table.Rows.isNil

\* C32 witness: a table of several pages, which still carries a continue
\* token, loses its DaemonSet pod to the filter; the two rows left are
\* printed under the table's tokens and columns.
C32_Witness ==
    /\ mpc = "done"
    /\ ~includeDaemonSets
    /\ printed.Continue # EmptyString
    /\ printed.ResourceVersion # EmptyString
    /\ printed.ColumnDefinitions = PodColumns
    /\ Len(ret.table.Rows.elems) = 3
    /\ IsDaemonSetOwned(ret.table.Rows.elems[3].owners)
    /\ Len(printed.Rows.elems) = 2

\* selectors were given and matched no node, no host name and no
\* --strategy were given: the target set main resolved is empty
EmptyTargetSet ==
    /\ argNodeNames = <<>>
    /\ selectors # <<>>
    /\ strategyFlag = ""
    /\ resolved.called /\ ~resolved.err
    /\ matchedSet = {}

\* C33: with an empty resolved target set and no --strategy, whatever the
\* number of nodes in the cluster, main sends no request for pods; the
\* strategy is by-node over no host, the query returns a table without rows
\* and no error, main can always take its next step until it has printed,
\* and it prints no row. The only fatal error left is the REST client for
\* pods that cannot be built.
C33_EmptyTargetSet ==
    EmptyTargetSet =>
        /\ NoPodRequest
        /\ nodeNames = <<>>
        /\ queryStrategy \in {"", queryPodPerNodeInParallel}
        /\ mpc \in {"strategy", "client", "dispatch", "query", "post", "done", "fatal"}
        /\ mpc = "fatal" => fatal = "failed to create REST client"
        /\ mpc \notin {"done", "fatal"} => ENABLED NextMain
        /\ ret.returned => (ret.err = <<>> /\ ret.table.Rows.elems = <<>>)
        /\ mpc = "done" => (ret.returned /\ presented = <<>> /\ printed.Rows.elems = <<>>)

\* C33 witness: a cluster without nodes, --workers=0; main has printed.
C33_Witness ==
    /\ EmptyTargetSet
    /\ resolved.total = 0
    /\ nodeListings = 1
    /\ numWorkers = 0
    /\ queryStrategy = queryPodPerNodeInParallel
    /\ mpc = "done"
    /\ presented = <<>>

====
